---------------------------- MODULE Spec2Model ----------------------------
(***************************************************************************)
(* NQueens experiment tooling: the sweep driver (run_nqueens.py) and the   *)
(* results aggregator (analyze_nqueens.py).                                *)
(*                                                                         *)
(* Spec        : the sweep driver, lines 13-51 of run_nqueens.py.          *)
(* AnalyzeSpec : the aggregator script, lines 12-130 of analyze_nqueens.py.*)
(***************************************************************************)
EXTENDS Integers, Sequences, FiniteSets

\* ------------------------------------------------------------------ bounds
\* How many leading entries of the driver's n_values list a grid may use.
MaxSizes == 3
\* The largest seed count S of range(0, S).
MaxSeeds == 2

VARIABLES
    \* ---- run_nqueens.py
    n_values,      \* ordered board sizes of the grid
    algorithms,    \* ordered algorithm labels of the grid
    seeds,         \* S of range(0, S)
    pc,            \* position of the driver script
    idx,           \* itertools.product odometer <<i, j, k>>, or Exhausted
    attempts,      \* the (n, algorithm, seed) triples handed to subprocess.run
    outcome,       \* what the latest subprocess.run did
    out,           \* the lines printed by the latest step
    analysisRuns,  \* how many times the analysis script was started
    exitCode,      \* the driver's exit status, NoExit while running
    exeSeen,       \* what os.path.exists(exe_path) returned at line 13
    scriptSeen,    \* what os.path.exists(analysis_script) returned at line 45
    failures,      \* how many solver runs raised or ended with a non-zero status
    \* ---- analyze_nqueens.py
    table,         \* the rows of Data/summary.csv, cells as text
    apc,           \* position of the analysis script
    df,            \* the DataFrame of lines 17-33
    failure_rates, \* the frame of line 36
    avg_elapsed,   \* the frame of line 101
    annotations,   \* the ax.text calls of lines 115-120
    artifacts,     \* the files written so far
    failedAt,      \* the artifact whose computation raised, NoArtifact if none
    partial_df,    \* the frame of line 128
    aExit          \* the analysis script's exit status, NoExit while running

drvVars == <<n_values, algorithms, seeds, pc, idx, attempts, outcome, out,
             analysisRuns, exitCode, exeSeen, scriptSeen, failures>>

anaVars == <<table, apc, df, failure_rates, avg_elapsed, annotations, artifacts,
             failedAt, partial_df, aExit>>

vars == <<drvVars, anaVars>>

\* ------------------------------------------------------- run_nqueens.py
NValuesAll == <<4, 6, 8, 10, 12, 14, 16, 18, 20, 24, 32, 50, 64, 80>>
AlgorithmsAll == <<"Genetic", "Tournament">>

Exhausted == <<>>
Range(s) == {s[i] : i \in 1..Len(s)}
\* The process has not ended: it has no exit status yet.
NoExit == -1
NoOutcome == [kind |-> "none"]
Raised == [kind |-> "raised"]
Completed(rc, err) == [kind |-> "completed", returncode |-> rc, stderr |-> err]

\* The outcomes of one subprocess.run of the solver: the launch raises, or the
\* process completes with an exit status and a (possibly empty) stderr text.
SolverOutcomes ==
    {Raised} \cup {Completed(rc, err) : rc \in {0, 1}, err \in {"", "trace"}}

\* The outcomes of subprocess.run(["python", analysis_script]).
AnalysisOutcomes == {Raised, Completed(0, ""), Completed(1, "")}

RECURSIVE Pick(_, _)
\* The subsequence of s at the positions in S, in s's order.
Pick(s, S) ==
    IF s = <<>> THEN <<>>
    ELSE LET r == Pick(SubSeq(s, 1, Len(s) - 1), S)
         IN  IF Len(s) \in S THEN Append(r, s[Len(s)]) ELSE r

SizeGrids ==
    {Pick(NValuesAll, S) : S \in (SUBSET (1..MaxSizes)) \ {{}}}
AlgorithmGrids ==
    {Pick(AlgorithmsAll, S) : S \in (SUBSET (1..Len(AlgorithmsAll))) \ {{}}}

\* itertools.product(n_values, algorithms, seeds): nothing when a pool is empty,
\* else the odometer starts at the first element of every pool.
ProductStart(ns, as, s) ==
    IF Len(ns) = 0 \/ Len(as) = 0 \/ s = 0 THEN Exhausted ELSE <<1, 1, 0>>

\* Faulty variant of the odometer: the leftmost wheel turns fastest.
AdvanceLeftFirst(i) ==
    IF i[1] < Len(n_values) THEN <<i[1] + 1, i[2], i[3]>>
    ELSE IF i[2] < Len(algorithms) THEN <<1, i[2] + 1, i[3]>>
    ELSE IF i[3] + 1 < seeds THEN <<1, 1, i[3] + 1>>
    ELSE Exhausted

\* The odometer step of itertools.product: the rightmost wheel turns fastest.
Advance(i) ==
    IF i[3] + 1 < seeds THEN <<i[1], i[2], i[3] + 1>>
    ELSE IF i[2] < Len(algorithms) THEN <<i[1], i[2] + 1, 0>>
    ELSE IF i[1] < Len(n_values) THEN <<i[1] + 1, 1, 0>>
    ELSE Exhausted

Triple(i) == <<n_values[i[1]], algorithms[i[2]], i[3]>>

\* Faulty variant of the check: the driver goes on without the executable.
ExeCheckIgnored(exists) == "loop"

\* Lines 13-15: where the driver goes after os.path.exists(exe_path).
ExeCheckTarget(exists) == IF exists THEN "loop" ELSE "exited"

\* Faulty variant of the loop body, with no try/except: a launch error leaves
\* the loop.
AfterAttemptUncaught(o) == IF o.kind = "raised" THEN "crashed" ELSE "loop"

\* Lines 27-42: every exception of the body is caught, and the return code is
\* never looked at, so the loop always goes on.
AfterAttempt(o) == "loop"

\* Lines 35-42: what one iteration prints after its header line.
AttemptLines(o) ==
    IF o.kind = "raised" THEN <<"Execution failed">>
    ELSE <<"stdout">> \o (IF o.stderr # "" THEN <<"Error:">> ELSE <<>>)

\* Faulty variant of the post-sweep step: the analysis is started unchecked.
AnalysisUnchecked(exists) == "analysis"

\* Lines 45-49: where the driver goes after os.path.exists(analysis_script).
AnalysisTarget(exists) == IF exists THEN "analysis" ELSE "final"

NoArtifact == "none"

\* The analysis script is not running.
AnalyzerIdle ==
    /\ table = <<>>
    /\ apc = "idle"
    /\ df = <<>>
    /\ failure_rates = <<>>
    /\ avg_elapsed = <<>>
    /\ annotations = <<>>
    /\ artifacts = {}
    /\ failedAt = NoArtifact
    /\ partial_df = <<>>
    /\ aExit = NoExit

Failed(o) ==
    \/ o.kind = "raised"
    \/ o.kind = "completed" /\ o.returncode # 0

DriverInit ==
    /\ n_values \in SizeGrids
    /\ algorithms \in AlgorithmGrids
    /\ seeds \in 0..MaxSeeds
    /\ pc = "start"
    /\ idx = Exhausted
    /\ attempts = <<>>
    /\ outcome = NoOutcome
    /\ out = <<>>
    /\ analysisRuns = 0
    /\ exitCode = NoExit
    /\ exeSeen = "unchecked"
    /\ scriptSeen = "unchecked"
    /\ failures = 0
    /\ AnalyzerIdle

\* Lines 13-15, then (the executable found) the parameters and the iterator of
\* lines 18-24.
CheckExe ==
    /\ pc = "start"
    /\ \E exists \in BOOLEAN :
         /\ exeSeen' = IF exists THEN "present" ELSE "missing"
         /\ pc' = ExeCheckTarget(exists)
         /\ out' = IF exists THEN <<>> ELSE <<"Executable not found">>
         /\ exitCode' = IF pc' = "exited" THEN 1 ELSE NoExit
         /\ idx' = IF pc' = "exited" THEN Exhausted
                   ELSE ProductStart(n_values, algorithms, seeds)
    /\ UNCHANGED <<n_values, algorithms, seeds, attempts, outcome, analysisRuns,
                   scriptSeen, failures>>
    /\ UNCHANGED anaVars

\* Lines 24-42: one iteration of the sweep loop.
RunSolver ==
    /\ pc = "loop"
    /\ idx # Exhausted
    /\ \E o \in SolverOutcomes :
         /\ outcome' = o
         /\ out' = <<"Running N-Queens Solver">> \o AttemptLines(o)
         /\ pc' = AfterAttempt(o)
         /\ exitCode' = IF pc' = "crashed" THEN 1 ELSE NoExit
         /\ failures' = IF Failed(o) THEN failures + 1 ELSE failures
    /\ attempts' = Append(attempts, Triple(idx))
    /\ idx' = Advance(idx)
    /\ UNCHANGED <<n_values, algorithms, seeds, analysisRuns, exeSeen, scriptSeen>>
    /\ UNCHANGED anaVars

\* Lines 45, 46, 49: the iterator is exhausted; look for the analysis script.
CheckAnalysis ==
    /\ pc = "loop"
    /\ idx = Exhausted
    /\ \E exists \in BOOLEAN :
         /\ scriptSeen' = IF exists THEN "present" ELSE "missing"
         /\ pc' = AnalysisTarget(exists)
         /\ out' = IF pc' = "analysis" THEN <<"Running analysis on results">>
                   ELSE <<"Analysis script not found">>
    /\ UNCHANGED <<n_values, algorithms, seeds, idx, attempts, outcome,
                   analysisRuns, exitCode, exeSeen, failures>>
    /\ UNCHANGED anaVars

\* Line 47: subprocess.run(["python", analysis_script]), outside any try and
\* without check=True: a raised launch error ends the driver with a traceback,
\* an exit status of the child is ignored.
RunAnalysis ==
    /\ pc = "analysis"
    /\ \E o \in AnalysisOutcomes :
         /\ outcome' = o
         /\ pc' = IF o.kind = "raised" THEN "crashed" ELSE "final"
         /\ exitCode' = IF o.kind = "raised" THEN 1 ELSE NoExit
    /\ analysisRuns' = analysisRuns + 1
    /\ out' = <<>>
    /\ UNCHANGED <<n_values, algorithms, seeds, idx, attempts, exeSeen,
                   scriptSeen, failures>>
    /\ UNCHANGED anaVars

\* Line 51, then the script ends.
FinalReport ==
    /\ pc = "final"
    /\ pc' = "done"
    /\ out' = <<"All executions completed">>
    /\ exitCode' = 0
    /\ UNCHANGED <<n_values, algorithms, seeds, idx, attempts, outcome,
                   analysisRuns, exeSeen, scriptSeen, failures>>
    /\ UNCHANGED anaVars

DriverNext ==
    \/ CheckExe
    \/ RunSolver
    \/ CheckAnalysis
    \/ RunAnalysis
    \/ FinalReport

Spec == DriverInit /\ [][DriverNext]_vars

\* --------------------------------------------------- analyze_nqueens.py
\* The largest table whose cells are drawn freely.
MaxRows == 3
\* The largest table of plain rows (for the head/tail export).
MaxPlainRows == 11

\* The default row count of DataFrame.head() and DataFrame.tail().
HeadTailRows == 5

\* The missing-value sentinel; a number n is <<n>>, a mean is <<sum, count>>.
NaN == <<>>

Digits == <<"0", "1", "2", "3", "4", "5", "6", "7", "8", "9">>

\* Cell texts, one character per element. Times are in whole units.
ElapsedTexts == {<<"1", "2">>, <<"a", "b", "c">>}
IntersectionsTexts == {<<"0">>, <<"2">>, <<"2", "x">>}

CsvRow(alg, elapsed, inters) ==
    [AlgorithmType |-> alg, ElapsedTimeSeconds |-> elapsed, Intersections |-> inters]

CsvRows ==
    {CsvRow(a, e, x) : a \in Range(AlgorithmsAll), e \in ElapsedTexts,
                       x \in IntersectionsTexts}

\* Well-formed rows of one shape, the algorithm alternating.
PlainTable(n) ==
    [i \in 1..n |-> CsvRow(AlgorithmsAll[1 + (i % 2)], <<"1">>, <<"0">>)]

\* Three Genetic rows with intersections 0, 0, 2 and two Tournament rows with
\* intersections 0, 1.
ExampleTable ==
    << CsvRow("Genetic", <<"1">>, <<"0">>), CsvRow("Genetic", <<"3">>, <<"0">>),
       CsvRow("Genetic", <<"9">>, <<"2">>), CsvRow("Tournament", <<"4">>, <<"0">>),
       CsvRow("Tournament", <<"7">>, <<"1">>) >>

Tables ==
    UNION {[1..n -> CsvRows] : n \in 0..MaxRows}
      \cup {PlainTable(n) : n \in 0..MaxPlainRows}
      \cup {ExampleTable}

DigitValue(ch) == (CHOOSE d \in 1..Len(Digits) : Digits[d] = ch) - 1

RECURSIVE Decimal(_)
\* The value of a non-empty text of digits.
Decimal(text) ==
    IF Len(text) = 1 THEN DigitValue(text[1])
    ELSE 10 * Decimal(SubSeq(text, 1, Len(text) - 1)) + DigitValue(text[Len(text)])

IsNumeral(text) ==
    /\ text # <<>>
    /\ \A i \in 1..Len(text) : text[i] \in Range(Digits)

\* Faulty variant of the coercion: a malformed cell counts as zero.
to_numeric_zero(text) == IF IsNumeral(text) THEN <<Decimal(text)>> ELSE <<0>>

\* Line 30: pd.to_numeric(cell, errors="coerce").
to_numeric(text) == IF IsNumeral(text) THEN <<Decimal(text)>> ELSE NaN

\* Lines 17-30: read_csv gives every row its position as index; AlgorithmType
\* becomes categorical, the numeric columns are coerced cell by cell.
LoadFrame(rows) ==
    [i \in 1..Len(rows) |->
        [index |-> i - 1,
         AlgorithmType |-> rows[i].AlgorithmType,
         ElapsedTimeSeconds |-> to_numeric(rows[i].ElapsedTimeSeconds),
         Intersections |-> to_numeric(rows[i].Intersections)]]

\* Faulty variant of the flag: a run without intersections counts as failed.
FailureFlagNonNegative(x) == x # NaN /\ x[1] >= 0

\* Line 33: Intersections > 0; a comparison with NaN is False.
FailureFlag(x) == x # NaN /\ x[1] > 0

\* Line 33: df['Failure'] = df['Intersections'] > 0.
WithFailure(frame) ==
    [i \in 1..Len(frame) |->
        [index |-> frame[i].index,
         AlgorithmType |-> frame[i].AlgorithmType,
         ElapsedTimeSeconds |-> frame[i].ElapsedTimeSeconds,
         Intersections |-> frame[i].Intersections,
         Failure |-> FailureFlag(frame[i].Intersections)]]

\* Line 20: the categories of the AlgorithmType column are the labels present
\* in the loaded table, in sorted order.
Categories(frame) ==
    SelectSeq(AlgorithmsAll,
              LAMBDA c : \E i \in 1..Len(frame) : frame[i].AlgorithmType = c)

RECURSIVE SumSeq(_)
SumSeq(s) == IF s = <<>> THEN 0 ELSE s[1] + SumSeq(Tail(s))

\* Series.mean(): missing values are skipped, an empty series has mean NaN.
Mean(values) ==
    LET present == SelectSeq(values, LAMBDA v : v # NaN)
    IN  IF present = <<>> THEN NaN
        ELSE <<SumSeq([i \in 1..Len(present) |-> present[i][1]]), Len(present)>>

GroupRows(frame, c) == SelectSeq(frame, LAMBDA r : r.AlgorithmType = c)

BoolNumber(b) == IF b THEN <<1>> ELSE <<0>>

\* Line 36: df.groupby('AlgorithmType', observed=False)['Failure'].mean()
\* .reset_index(): one row per category.
FailureRates(frame, cats) ==
    [k \in 1..Len(cats) |->
        LET g == GroupRows(frame, cats[k])
        IN  [AlgorithmType |-> cats[k],
             Failure |-> Mean([i \in 1..Len(g) |-> BoolNumber(g[i].Failure)])]]

\* Faulty variant of the filter: failed runs are kept.
ValidRowsUnfiltered(frame) == frame

\* Line 98: df[df['Failure'] == False].
ValidRows(frame) == SelectSeq(frame, LAMBDA r : r.Failure = FALSE)

\* Line 101: df_valid.groupby('AlgorithmType', observed=False)
\* ['ElapsedTimeSeconds'].mean().reset_index(): one row per category of the
\* column, also for a category with no valid row.
AvgElapsed(frame, cats) ==
    [k \in 1..Len(cats) |->
        LET g == GroupRows(ValidRows(frame), cats[k])
        IN  [AlgorithmType |-> cats[k],
             ElapsedTimeSeconds |->
                 Mean([i \in 1..Len(g) |-> g[i].ElapsedTimeSeconds])]]

\* Line 118: failure_rates[failure_rates['AlgorithmType'] == alg]['Failure'].
RateMatches(rates, alg) == SelectSeq(rates, LAMBDA r : r.AlgorithmType = alg)

\* Line 118 raises IndexError at .values[0] when no row matches.
LookupRaises(avg, rates) ==
    \E k \in 1..Len(avg) : RateMatches(rates, avg[k].AlgorithmType) = <<>>

\* Lines 115-120: one ax.text per row of avg_elapsed, at the row's index.
Annotate(avg, rates) ==
    [k \in 1..Len(avg) |->
        [index |-> k - 1,
         AlgorithmType |-> avg[k].AlgorithmType,
         elapsed |-> avg[k].ElapsedTimeSeconds,
         failure_rate |-> RateMatches(rates, avg[k].AlgorithmType)[1].Failure]]

\* Line 127: the table is read again, with no coercion.
ReadFrame(rows) ==
    [i \in 1..Len(rows) |->
        [index |-> i - 1,
         AlgorithmType |-> rows[i].AlgorithmType,
         ElapsedTimeSeconds |-> rows[i].ElapsedTimeSeconds,
         Intersections |-> rows[i].Intersections]]

Min(a, b) == IF a < b THEN a ELSE b
Max(a, b) == IF a > b THEN a ELSE b

head(frame, n) == SubSeq(frame, 1, Min(n, Len(frame)))
tail(frame, n) == SubSeq(frame, Max(1, Len(frame) - n + 1), Len(frame))

\* Line 128: pd.concat([df.head(5), df.tail(5)]).
ReducedExport(frame) == head(frame, HeadTailRows) \o tail(frame, HeadTailRows)

\* The artifacts in program order.
ArtifactOrder ==
    <<"elapsed_time_comparison.png", "time_complexity_comparison.png",
      "failure_rate_comparison.png", "parameter_correlation_heatmap.png",
      "avg_elapsed_time_valid.png", "summaryReduced.csv">>

\* The driver is not part of a run of the analysis script.
DriverIdle ==
    /\ n_values = <<>>
    /\ algorithms = <<>>
    /\ seeds = 0
    /\ pc = "idle"
    /\ idx = Exhausted
    /\ attempts = <<>>
    /\ outcome = NoOutcome
    /\ out = <<>>
    /\ analysisRuns = 0
    /\ exitCode = NoExit
    /\ exeSeen = "unchecked"
    /\ scriptSeen = "unchecked"
    /\ failures = 0

AnalyzeInit ==
    /\ table \in Tables
    /\ apc = "start"
    /\ df = <<>>
    /\ failure_rates = <<>>
    /\ avg_elapsed = <<>>
    /\ annotations = <<>>
    /\ artifacts = {}
    /\ failedAt = NoArtifact
    /\ partial_df = <<>>
    /\ aExit = NoExit
    /\ DriverIdle

\* Lines 12-14: without the record store the script prints and exits with 1.
CheckCsv ==
    /\ apc = "start"
    /\ \E exists \in BOOLEAN :
         /\ apc' = IF exists THEN "load" ELSE "exited"
         /\ aExit' = IF exists THEN NoExit ELSE 1
    /\ UNCHANGED <<table, df, failure_rates, avg_elapsed, annotations, artifacts,
                   failedAt, partial_df>>
    /\ UNCHANGED drvVars

\* Lines 17-30.
Load ==
    /\ apc = "load"
    /\ df' = LoadFrame(table)
    /\ apc' = "derive"
    /\ UNCHANGED <<table, failure_rates, avg_elapsed, annotations, artifacts,
                   failedAt, partial_df, aExit>>
    /\ UNCHANGED drvVars

\* Lines 33-36.
Derive ==
    /\ apc = "derive"
    /\ df' = WithFailure(df)
    /\ failure_rates' = FailureRates(df', Categories(df'))
    /\ apc' = ArtifactOrder[1]
    /\ UNCHANGED <<table, avg_elapsed, annotations, artifacts, failedAt,
                   partial_df, aExit>>
    /\ UNCHANGED drvVars

\* The script has no try/except: an artifact that is written hands over to the
\* next statement, an exception ends the script with a traceback and status 1.
Wrote(k) ==
    /\ artifacts' = artifacts \cup {ArtifactOrder[k]}
    /\ apc' = IF k < Len(ArtifactOrder) THEN ArtifactOrder[k + 1] ELSE "done"
    /\ aExit' = IF k < Len(ArtifactOrder) THEN NoExit ELSE 0
    /\ failedAt' = failedAt

Raise(k) ==
    /\ artifacts' = artifacts
    /\ apc' = "crashed"
    /\ aExit' = 1
    /\ failedAt' = ArtifactOrder[k]

\* Lines 47-53, 57-64, 68-75 and 81-93: the charts that compute no frame the
\* script keeps.
Chart(k) ==
    /\ apc = ArtifactOrder[k]
    /\ \E ok \in BOOLEAN : IF ok THEN Wrote(k) ELSE Raise(k)
    /\ UNCHANGED <<table, df, failure_rates, avg_elapsed, annotations, partial_df>>
    /\ UNCHANGED drvVars

ElapsedChart == Chart(1)
ComplexityChart == Chart(2)
FailureRateChart == Chart(3)
CorrelationHeatmap == Chart(4)

\* Lines 98-123.
AvgElapsedChart ==
    /\ apc = ArtifactOrder[5]
    /\ avg_elapsed' = AvgElapsed(df, Categories(df))
    /\ \E ok \in BOOLEAN :
         IF ok /\ ~ LookupRaises(avg_elapsed', failure_rates)
         THEN /\ annotations' = Annotate(avg_elapsed', failure_rates)
              /\ Wrote(5)
         ELSE /\ annotations' = annotations
              /\ Raise(5)
    /\ UNCHANGED <<table, df, failure_rates, partial_df>>
    /\ UNCHANGED drvVars

\* Lines 127-130.
Export ==
    /\ apc = ArtifactOrder[6]
    /\ \E ok \in BOOLEAN :
         IF ok
         THEN /\ df' = ReadFrame(table)
              /\ partial_df' = ReducedExport(df')
              /\ Wrote(6)
         ELSE /\ UNCHANGED <<df, partial_df>>
              /\ Raise(6)
    /\ UNCHANGED <<table, failure_rates, avg_elapsed, annotations>>
    /\ UNCHANGED drvVars

AnalyzeNext ==
    \/ CheckCsv
    \/ Load
    \/ Derive
    \/ ElapsedChart
    \/ ComplexityChart
    \/ FailureRateChart
    \/ CorrelationHeatmap
    \/ AvgElapsedChart
    \/ Export

AnalyzeSpec == AnalyzeInit /\ [][AnalyzeNext]_vars

\* ============================================================ properties
\* ---------------------------------------------------- run_nqueens.py
GridSize == Len(n_values) * Len(algorithms) * seeds

Grid == Range(n_values) \X Range(algorithms) \X (0..(seeds - 1))

\* The sweep loop is over: the driver is at or past line 45.
PastLoop == pc \in {"analysis", "final", "done", "crashed"}

PositionIn(s, x) == CHOOSE i \in 1..Len(s) : s[i] = x

\* t comes before u in the order (position of N, position of algorithm, seed).
LexBefore(t, u) ==
    LET tn == PositionIn(n_values, t[1])
        un == PositionIn(n_values, u[1])
        ta == PositionIn(algorithms, t[2])
        ua == PositionIn(algorithms, u[2])
    IN  \/ tn < un
        \/ tn = un /\ ta < ua
        \/ tn = un /\ ta = ua /\ t[3] < u[3]

ErrorLogged(lines) ==
    \E i \in 1..Len(lines) : lines[i] \in {"Error:", "Execution failed"}

\* The latest step was an iteration of the sweep loop.
AfterIteration == Len(out) > 0 /\ out[1] = "Running N-Queens Solver"

\* C1: whatever the outcomes of the invocations, the sweep attempts every
\* (N, algorithm, seed) triple of the grid exactly once: no triple is attempted
\* twice, only triples of the grid are attempted, the loop is left only when
\* the number of attempts is the grid size and every triple was attempted, and
\* while triples remain the driver is still in the loop (no failure leaves it).
C1_ExactlyOncePerTriple ==
    /\ \A i, j \in 1..Len(attempts) : i # j => attempts[i] # attempts[j]
    /\ Range(attempts) \subseteq Grid
    /\ failures <= Len(attempts)
    /\ Len(attempts) < GridSize /\ exeSeen = "present" =>
           pc = "loop" /\ idx # Exhausted
    /\ PastLoop => Len(attempts) = GridSize /\ Range(attempts) = Grid

\* Every invocation of a grid of at least eight triples failed, and the driver
\* still went through the whole grid and ended.
C1_Witness ==
    /\ pc = "done"
    /\ GridSize >= 8
    /\ Len(attempts) = GridSize
    /\ failures = GridSize

\* C2: the attempts are made in lexicographic order of (position of N in
\* n_values, position of algorithm in algorithms, seed), whatever the outcomes;
\* with the completeness of the sweep this fixes the order. For the grid
\* N in <<4, 8>>, <<Genetic, Tournament>>, seeds 0 and 1 the sweep is exactly
\* the eight attempts 4/Genetic/0, 4/Genetic/1, 4/Tournament/0, 4/Tournament/1,
\* 8/Genetic/0, 8/Genetic/1, 8/Tournament/0, 8/Tournament/1.
C2_FixedLexicographicOrder ==
    /\ \A i, j \in 1..Len(attempts) :
           i < j => LexBefore(attempts[i], attempts[j])
    /\ PastLoop => Len(attempts) = GridSize
    /\ idx # Exhausted /\ attempts # <<>> =>
           LexBefore(attempts[Len(attempts)], Triple(idx))
    /\ ( /\ n_values = <<4, 8>>
         /\ algorithms = <<"Genetic", "Tournament">>
         /\ seeds = 2
         /\ PastLoop )
       => attempts = << <<4, "Genetic", 0>>, <<4, "Genetic", 1>>,
                        <<4, "Tournament", 0>>, <<4, "Tournament", 1>>,
                        <<8, "Genetic", 0>>, <<8, "Genetic", 1>>,
                        <<8, "Tournament", 0>>, <<8, "Tournament", 1>> >>

\* The example grid was swept to its end, with failed invocations on the way.
C2_Witness ==
    /\ n_values = <<4, 8>>
    /\ algorithms = <<"Genetic", "Tournament">>
    /\ seeds = 2
    /\ pc = "done"
    /\ Len(attempts) = 8
    /\ failures = 3

\* C3: when the executable is missing at line 13 the driver prints the
\* diagnostic and ends with exit code 1, and in such a run no solver is ever
\* invoked and the analysis script is never started; an invocation is made only
\* in runs where the executable was found.
C3_FailFastOnMissingExecutable ==
    /\ exeSeen = "missing" =>
           /\ pc = "exited"
           /\ exitCode = 1
           /\ out = <<"Executable not found">>
           /\ attempts = <<>>
           /\ analysisRuns = 0
           /\ scriptSeen = "unchecked"
           /\ ~ ENABLED DriverNext
    /\ pc = "exited" => exeSeen = "missing"
    /\ (attempts # <<>> \/ analysisRuns > 0) => exeSeen = "present"

\* The driver ended at the existence check of a non-empty grid.
C3_Witness ==
    /\ exeSeen = "missing"
    /\ pc = "exited"
    /\ exitCode = 1
    /\ GridSize >= 8

\* C4 (the claim as stated): after every iteration whose invocation raised or
\* ended with a non-zero exit status, the driver has printed an error line.
C4_EveryFailureLogged ==
    AfterIteration /\ Failed(outcome) => ErrorLogged(out)

TypeRows(c) == {i \in 1..Len(table) : table[i].AlgorithmType = c}

\* The cell text is a number above zero.
PositiveText(text) == IsNumeral(text) /\ Decimal(text) > 0

FailingRows(c) == {i \in TypeRows(c) : PositiveText(table[i].Intersections)}

\* The rows of type c that are not failed and whose elapsed time is a number.
TimedValidRows(c) ==
    {i \in TypeRows(c) \ FailingRows(c) : IsNumeral(table[i].ElapsedTimeSeconds)}

RECURSIVE SumOver(_, _)
SumOver(S, f) ==
    IF S = {} THEN 0
    ELSE LET x == CHOOSE y \in S : TRUE IN f[x] + SumOver(S \ {x}, f)

ElapsedSum(S) ==
    SumOver(S, [i \in S |-> Decimal(table[i].ElapsedTimeSeconds)])

\* Equality of two fractions <<numerator, denominator>>.
SameFraction(a, b) == a # NaN /\ b # NaN /\ a[1] * b[2] = b[1] * a[2]

\* df holds the coerced table (lines 17-30 have run, line 127 has not).
Coerced == apc \notin {"start", "exited", "load", "done"}
\* Lines 33-36 have run: the Failure column and failure_rates exist.
Derived == apc \notin {"start", "exited", "load", "derive"}
\* Lines 98-120 have run to their end.
Annotated == ArtifactOrder[5] \in artifacts

RateOf(c) == RateMatches(failure_rates, c)[1].Failure

\* C6: once failure_rates is computed, it has exactly one row for every
\* algorithm type with at least one record, and that row's rate is (number of the
\* type's records with Intersections > 0) over (number of the type's records);
\* the Failure flag of a record is set exactly when its Intersections is above
\* zero. For the table of 3 Genetic rows (0, 0, 2) and 2 Tournament rows (0, 1)
\* the rates are 1/3 and 1/2.
C6_FailureRateIsFailingOverAll ==
    /\ Derived /\ Coerced =>
         \A i \in 1..Len(table) :
             df[i].Failure = PositiveText(table[i].Intersections)
    /\ Derived =>
         \A c \in Range(AlgorithmsAll) :
             /\ Len(RateMatches(failure_rates, c)) =
                    IF TypeRows(c) = {} THEN 0 ELSE 1
             /\ TypeRows(c) # {} =>
                    RateOf(c) = <<Cardinality(FailingRows(c)), Cardinality(TypeRows(c))>>
    /\ Derived /\ table = ExampleTable =>
         /\ SameFraction(RateOf("Genetic"), <<1, 3>>)
         /\ SameFraction(RateOf("Tournament"), <<1, 2>>)

\* The example table went through the whole script.
C6_Witness ==
    /\ table = ExampleTable
    /\ apc = "done"
    /\ failure_rates = << [AlgorithmType |-> "Genetic", Failure |-> <<1, 3>>],
                          [AlgorithmType |-> "Tournament", Failure |-> <<1, 2>>] >>

\* C7 (the claim as stated): the reduced export holds every source row at most
\* once, in load order; the first k and last k rows when the table has M >= 2k
\* rows, and all M rows when M < 2k.
C7_ExportWithoutDuplicates ==
    apc = "done" =>
        /\ \A i, j \in 1..Len(partial_df) :
               i < j => partial_df[i].index < partial_df[j].index
        /\ Len(table) >= 2 * HeadTailRows =>
               partial_df = SubSeq(ReadFrame(table), 1, HeadTailRows)
                   \o SubSeq(ReadFrame(table), Len(table) - HeadTailRows + 1,
                             Len(table))
        /\ Len(table) < 2 * HeadTailRows => Len(partial_df) = Len(table)

\* C8 (the claim as stated): when the computation of one artifact fails after
\* the table was loaded, every other artifact is produced.
C8_ArtifactsIsolated ==
    apc = "crashed" => artifacts = Range(ArtifactOrder) \ {failedAt}

\* The value a cell text stands for: its number, or the missing value.
CellValue(text) == IF IsNumeral(text) THEN <<Decimal(text)>> ELSE NaN

\* C9: loading never drops a row or ends the script; a cell that is not a number
\* becomes the missing value and every other cell of the row keeps its value;
\* the row's Failure flag follows its Intersections, the row counts in the
\* denominator of its type's failure rate, and a row whose ElapsedTimeSeconds is
\* malformed adds neither to the sum nor to the count of its type's mean
\* elapsed time.
C9_MalformedCellBecomesMissing ==
    /\ apc \in {"load", "derive"} => aExit = NoExit /\ failedAt = NoArtifact
    /\ apc = "crashed" => failedAt \in Range(ArtifactOrder)
    /\ Coerced =>
         /\ Len(df) = Len(table)
         /\ \A i \in 1..Len(table) :
              /\ df[i].index = i - 1
              /\ df[i].AlgorithmType = table[i].AlgorithmType
              /\ df[i].ElapsedTimeSeconds = CellValue(table[i].ElapsedTimeSeconds)
              /\ df[i].Intersections = CellValue(table[i].Intersections)
              /\ ~ IsNumeral(table[i].ElapsedTimeSeconds) =>
                     df[i].ElapsedTimeSeconds = NaN
              /\ ~ IsNumeral(table[i].Intersections) => df[i].Intersections = NaN
    /\ Derived /\ Coerced =>
         \A i \in 1..Len(table) :
             df[i].Failure = (df[i].Intersections # NaN /\ df[i].Intersections[1] > 0)
    /\ Derived =>
         \A c \in Range(AlgorithmsAll) :
             TypeRows(c) # {} => RateOf(c)[2] = Cardinality(TypeRows(c))
    /\ Annotated =>
         \A k \in 1..Len(avg_elapsed) :
             LET S == TimedValidRows(avg_elapsed[k].AlgorithmType)
             IN  avg_elapsed[k].ElapsedTimeSeconds =
                     IF S = {} THEN NaN ELSE <<ElapsedSum(S), Cardinality(S)>>

\* A Genetic row with a malformed elapsed time was loaded beside a Genetic row
\* of 12 units: it is missing from the mean and present in the failure rate.
C9_Witness ==
    /\ apc = "done"
    /\ Len(table) = 2
    /\ \A i \in 1..2 : table[i].AlgorithmType = "Genetic"
    /\ table[1].ElapsedTimeSeconds = <<"a", "b", "c">>
    /\ table[1].Intersections = <<"0">>
    /\ table[2].ElapsedTimeSeconds = <<"1", "2">>
    /\ table[2].Intersections = <<"0">>
    /\ avg_elapsed = << [AlgorithmType |-> "Genetic", ElapsedTimeSeconds |-> <<12, 1>>] >>
    /\ failure_rates = << [AlgorithmType |-> "Genetic", Failure |-> <<0, 2>>] >>

\* C10: avg_elapsed has one row per category of the table, in the order of
\* failure_rates; its value is the mean of ElapsedTimeSeconds over the records
\* of that type whose Failure flag is false (missing times skipped, no record
\* with Intersections > 0 among them), and the rate annotated on the bar at
\* that row's position is the failure rate of the same type, found for every
\* category, also one whose records all failed.
C10_ValidAverageAndItsRate ==
    Annotated =>
        /\ Len(avg_elapsed) = Len(failure_rates)
        /\ Len(annotations) = Len(avg_elapsed)
        /\ \A c \in Range(AlgorithmsAll) :
               TypeRows(c) # {} =>
                   \E k \in 1..Len(avg_elapsed) : avg_elapsed[k].AlgorithmType = c
        /\ \A k \in 1..Len(avg_elapsed) :
               LET c == avg_elapsed[k].AlgorithmType
                   S == TimedValidRows(c)
               IN  /\ failure_rates[k].AlgorithmType = c
                   /\ Len(RateMatches(failure_rates, c)) = 1
                   /\ \A h \in 1..Len(avg_elapsed) :
                          avg_elapsed[h].AlgorithmType = c => h = k
                   /\ S \cap FailingRows(c) = {}
                   /\ avg_elapsed[k].ElapsedTimeSeconds =
                          IF S = {} THEN NaN ELSE <<ElapsedSum(S), Cardinality(S)>>
                   /\ annotations[k].index = k - 1
                   /\ annotations[k].AlgorithmType = c
                   /\ annotations[k].elapsed = avg_elapsed[k].ElapsedTimeSeconds
                   /\ annotations[k].failure_rate =
                          <<Cardinality(FailingRows(c)), Cardinality(TypeRows(c))>>

\* Every Genetic record failed and the Tournament records are one valid and one
\* failed: the Genetic bar has no mean and is annotated with rate 1, the
\* Tournament bar is the valid record's time, annotated with rate 1/2.
C10_Witness ==
    /\ Annotated
    /\ Len(table) = 3
    /\ annotations =
         << [index |-> 0, AlgorithmType |-> "Genetic", elapsed |-> NaN,
             failure_rate |-> <<1, 1>>],
            [index |-> 1, AlgorithmType |-> "Tournament", elapsed |-> <<12, 1>>,
             failure_rate |-> <<1, 2>>] >>

=============================================================================
